---- MODULE Spec2Model ----
(***************************************************************************)
(* Vehicle movement simulation (app.js): the playback engine, its          *)
(* requestAnimationFrame tick chain and the play/pause, reset and speed    *)
(* controls, as a state machine.                                           *)
(*                                                                         *)
(* Times are milliseconds.  Coordinates, the speed multiplier and the      *)
(* segment duration are exact rationals [n |-> numerator, d |-> denom].    *)
(* A JavaScript value that may be null is <<>> (null) or <<v>>.            *)
(***************************************************************************)
EXTENDS Integers, Sequences, FiniteSets, TLC

(***************************************************************************)
(* Bounds of the model.                                                    *)
(***************************************************************************)
\* granularity of the clock: performance.now() advances in steps of Quantum
Quantum == 1000
\* the clock stops after MaxSteps steps
MaxSteps == 4
\* in the runs without pause and reset the clock stops after LiveSteps steps
LiveSteps == 6

(***************************************************************************)
(* null-able values.                                                       *)
(***************************************************************************)
Null == <<>>
Some(v) == <<v>>
Val(o) == o[1]
\* JavaScript ToNumber of a null-able number: null is 0
Num(o) == IF o = Null THEN 0 ELSE o[1]

(***************************************************************************)
(* Exact rational arithmetic standing for the numbers of the program.      *)
(***************************************************************************)
Abs(x) == IF x < 0 THEN -x ELSE x

RECURSIVE GCD(_, _)
GCD(a, b) == IF b = 0 THEN a ELSE GCD(b, a % b)

Rat(n, d) ==
  LET g == GCD(Abs(n), Abs(d))
      s == IF d < 0 THEN -1 ELSE 1
  IN  [n |-> (s * n) \div g, d |-> (s * d) \div g]

FromInt(i) == [n |-> i, d |-> 1]
RAdd(a, b) == Rat(a.n * b.d + b.n * a.d, a.d * b.d)
RSub(a, b) == Rat(a.n * b.d - b.n * a.d, a.d * b.d)
RMul(a, b) == Rat(a.n * b.n, a.d * b.d)
RDiv(a, b) == Rat(a.n * b.d, a.d * b.n)
RLeq(a, b) == a.n * b.d <= b.n * a.d
RLt(a, b) == a.n * b.d < b.n * a.d
\* Math.min
RMin(a, b) == IF RLeq(a, b) THEN a ELSE b
\* Math.floor
RFloor(a) == a.n \div a.d
\* truncation towards zero (the time value of new Date(x))
RTrunc(a) == IF a.n >= 0 THEN a.n \div a.d ELSE -((-a.n) \div a.d)
\* the % of JavaScript on integers: the sign of the dividend
JsRem(a, b) == IF a >= 0 THEN a % b ELSE -((-a) % b)

(***************************************************************************)
(* The program's constants.                                                *)
(***************************************************************************)
\* the duration of a segment without usable timestamps, before scaling
FallbackMs == 2000
\* initMap's default centre, where the marker stands before a route loads
MapCenter == <<Rat(17385044, 1000000), Rat(78486671, 1000000)>>

(***************************************************************************)
(* Inputs: the documents the fetch of dummy-route.json can return, and the *)
(* values of the speed slider.                                             *)
(***************************************************************************)
RawPoint(la, lo, ts) == [latitude |-> FromInt(la), longitude |-> FromInt(lo), timestamp |-> ts]

\* one waypoint only
RawSingle == << RawPoint(3, 4, Some(1000)) >>
\* the scenario route of the specification (epoch timestamps 0, 2000, 4000)
RawScenario == << RawPoint(0, 0, Some(0)), RawPoint(1, 1, Some(2000)), RawPoint(2, 2, Some(4000)) >>
\* timestamps one second apart
RawTimed == << RawPoint(0, 0, Some(1000)), RawPoint(2, 4, Some(2000)) >>
\* no timestamps at all
RawBare == << RawPoint(0, 0, Null), RawPoint(0, 2, Null) >>
\* corrupt timestamps: going back, then standing still
RawCorrupt == << RawPoint(0, 0, Some(3000)), RawPoint(1, 1, Some(1000)), RawPoint(1, 2, Some(1000)) >>
\* a timestamp missing in the middle
RawMixed == << RawPoint(0, 0, Some(1000)), RawPoint(1, 0, Null), RawPoint(1, 1, Some(2000)) >>

RawRoutes == {<<>>, RawSingle, RawScenario, RawTimed, RawBare, RawCorrupt, RawMixed}

\* what fetch(ROUTE_FILE) resolves to: a failure status, or a document
Responses == {[ok |-> FALSE, json |-> <<>>]} \cup {[ok |-> TRUE, json |-> r] : r \in RawRoutes}

\* the slider's values (positive numbers)
SpeedValues == {FromInt(1), FromInt(2)}

(***************************************************************************)
(* State.                                                                  *)
(***************************************************************************)
VARIABLES
  route,              \* the loaded waypoints [lat, lng, timestamp]
  index,              \* the current waypoint
  playing,
  speedMultiplier,
  animRequest,        \* the handle of the last requestAnimationFrame, or null
  segmentStartTime,   \* null-able
  segmentDuration,
  segmentFrom,        \* null-able waypoint
  segmentTo,          \* null-able waypoint
  startSimTime,       \* null-able
  bikeMarker,         \* the marker's position <<lat, lng>>
  livePolyline,       \* the live trail: a sequence of <<lat, lng>>
  fullPolyline,       \* the grey route
  latEl, lngEl, timestampEl, elapsedEl, speedEl, progressEl,
  playPauseBtn,       \* the button's label
  speedValue,         \* the label next to the slider
  pending,            \* the handles of the frame callbacks scheduled
  clock,              \* performance.now()
  lastFrame,          \* the timestamp of the last frame whose callback ran
  loaded,             \* "loading", "ready" or "failed"
  alerted,            \* the start-up error shown to the user, or null
  thrown,             \* the last handler ended with an uncaught exception
  lastOp,             \* history: the last handler that ran
  openSpeed,          \* history: speedMultiplier when the segment was opened
  steady,             \* history: played from the start, no command since
  fromEnd             \* history: the last handler was play() at the last waypoint

engine == <<route, index, playing, speedMultiplier, animRequest, segmentStartTime,
            segmentDuration, segmentFrom, segmentTo, startSimTime>>
surface == <<bikeMarker, livePolyline, fullPolyline>>
telemetry == <<latEl, lngEl, timestampEl, elapsedEl, speedEl, progressEl>>
widgets == <<playPauseBtn, speedValue>>
host == <<pending, clock, lastFrame, loaded, alerted, thrown>>
history == <<lastOp, openSpeed, steady, fromEnd>>
vars == <<engine, surface, telemetry, widgets, host, history>>

\* the text a DOM element has before the script writes it
Html == <<"html">>

\* the program's state as one value, so that a function is state -> state
Cur ==
  [route |-> route, index |-> index, playing |-> playing,
   speedMultiplier |-> speedMultiplier, animRequest |-> animRequest,
   segmentStartTime |-> segmentStartTime, segmentDuration |-> segmentDuration,
   segmentFrom |-> segmentFrom, segmentTo |-> segmentTo, startSimTime |-> startSimTime,
   bikeMarker |-> bikeMarker, livePolyline |-> livePolyline, fullPolyline |-> fullPolyline,
   latEl |-> latEl, lngEl |-> lngEl, timestampEl |-> timestampEl, elapsedEl |-> elapsedEl,
   speedEl |-> speedEl, progressEl |-> progressEl,
   playPauseBtn |-> playPauseBtn, speedValue |-> speedValue,
   pending |-> pending, alerted |-> alerted, exc |-> Null, openSpeed |-> openSpeed]

Commit(s) ==
  /\ route' = s.route /\ index' = s.index /\ playing' = s.playing
  /\ speedMultiplier' = s.speedMultiplier /\ animRequest' = s.animRequest
  /\ segmentStartTime' = s.segmentStartTime /\ segmentDuration' = s.segmentDuration
  /\ segmentFrom' = s.segmentFrom /\ segmentTo' = s.segmentTo
  /\ startSimTime' = s.startSimTime
  /\ bikeMarker' = s.bikeMarker /\ livePolyline' = s.livePolyline
  /\ fullPolyline' = s.fullPolyline
  /\ latEl' = s.latEl /\ lngEl' = s.lngEl /\ timestampEl' = s.timestampEl
  /\ elapsedEl' = s.elapsedEl /\ speedEl' = s.speedEl /\ progressEl' = s.progressEl
  /\ playPauseBtn' = s.playPauseBtn /\ speedValue' = s.speedValue
  /\ pending' = s.pending /\ alerted' = s.alerted /\ thrown' = (s.exc # Null)
  /\ openSpeed' = s.openSpeed

Init ==
  /\ route = <<>> /\ index = 0 /\ playing = FALSE
  /\ speedMultiplier = FromInt(1) /\ animRequest = Null
  /\ segmentStartTime = Null /\ segmentDuration = FromInt(FallbackMs)
  /\ segmentFrom = Null /\ segmentTo = Null /\ startSimTime = Null
  /\ bikeMarker = MapCenter /\ livePolyline = <<>> /\ fullPolyline = <<>>
  /\ latEl = Html /\ lngEl = Html /\ timestampEl = Html /\ elapsedEl = Html
  /\ speedEl = Html /\ progressEl = Html
  /\ playPauseBtn = Html /\ speedValue = Html
  /\ pending = {} /\ clock = Quantum /\ lastFrame = 0
  /\ loaded = "loading" /\ alerted = Null /\ thrown = FALSE
  /\ lastOp = "init" /\ openSpeed = Null /\ steady = FALSE /\ fromEnd = FALSE

(***************************************************************************)
(* The host: requestAnimationFrame and cancelAnimationFrame.               *)
(***************************************************************************)
\* A handle the host has not given to a callback still scheduled, nor the
\* one animRequest holds: handles are only ever compared with those.
NewHandle(s) ==
  CHOOSE h \in 1..(Cardinality(s.pending) + 2) :
    /\ h \notin s.pending
    /\ Some(h) # s.animRequest
    /\ \A k \in 1..(h - 1) : k \in s.pending \/ Some(k) = s.animRequest

\* animRequest = requestAnimationFrame(animate)
requestAnimationFrame(s) ==
  LET h == NewHandle(s)
  IN  [s EXCEPT !.pending = @ \cup {h}, !.animRequest = Some(h)]

\* cancelAnimationFrame(animRequest): nothing happens for null or a handle that ran
cancelAnimationFrame(s) ==
  IF s.animRequest = Null THEN s
  ELSE [s EXCEPT !.pending = @ \ {Val(s.animRequest)}]

(***************************************************************************)
(* Pure helpers of app.js.                                                 *)
(***************************************************************************)
\* a raw timestamp is truthy unless it is absent or the number 0
Truthy(ts) == ts # Null /\ Val(ts) # 0

toDate(ts) == IF Truthy(ts) THEN ts ELSE Null

\* String(n).padStart(2, '0')
PadStart2(n) == LET str == ToString(n) IN IF Len(str) < 2 THEN "0" \o str ELSE str

formatTime(ms) ==
  LET sec == JsRem(RFloor(Rat(ms, 1000)), 60)
      min == JsRem(RFloor(Rat(ms, 60000)), 60)
      hrs == RFloor(Rat(ms, 3600000))
  IN  PadStart2(hrs) \o ":" \o PadStart2(min) \o ":" \o PadStart2(sec)

\* the first k decimals of rem / d, and the remainder left: <<digits, remainder>>
RECURSIVE Decimals(_, _, _)
Decimals(rem, d, k) ==
  IF k = 0 THEN <<0, rem>>
  ELSE LET p == Decimals(rem, d, k - 1)
       IN  <<p[1] * 10 + (p[2] * 10) \div d, (p[2] * 10) % d>>

\* x.toFixed(6), as the number of millionths shown (a tie rounds away from zero)
toFixed6(x) ==
  LET a == Abs(x.n)
      p == Decimals(a % x.d, x.d, 6)
      q == (a \div x.d) * 1000000 + p[1] + (IF 2 * p[2] >= x.d THEN 1 ELSE 0)
  IN  <<"fixed6", IF x.n < 0 THEN -q ELSE q>>

\* date.toISOString(): the time value, whole milliseconds
toISOString(ms) == <<"iso", ms>>

\* the great-circle distance is kept symbolic: a term over its two points
haversine(a, b) == <<"haversine", a, b>>

\* mutant: the start value is not subtracted from the end value
lerp_NoDiff(a, b, t) == RAdd(a, RMul(b, t))

lerp(a, b, t) == RAdd(a, RMul(RSub(b, a), t))

(***************************************************************************)
(* The functions of app.js, each from a state to the state it leaves.      *)
(* An exception thrown is recorded in exc and ends the function.           *)
(***************************************************************************)
Dash == <<"dash">>
TypeError == Some("TypeError")

LatLng(p) == <<p.lat, p.lng>>

progressText(i, n) == <<"progress", i + 1, n>>

updateInfo(s, i) ==
  IF i + 1 > Len(s.route)
  THEN [s EXCEPT !.exc = TypeError]
  ELSE LET p == s.route[i + 1]
       IN  [s EXCEPT !.latEl = toFixed6(p.lat),
                     !.lngEl = toFixed6(p.lng),
                     !.timestampEl = IF p.timestamp # Null
                                     THEN toISOString(Val(p.timestamp)) ELSE Dash,
                     !.elapsedEl = <<"time", "00:00:00">>,
                     !.speedEl = Dash,
                     !.progressEl = progressText(i, Len(s.route))]

loadPoint(p) ==
  [lat |-> p.latitude, lng |-> p.longitude,
   timestamp |-> IF Truthy(p.timestamp) THEN toDate(p.timestamp) ELSE Null]

loadRoute(s, resp) ==
  IF ~resp.ok THEN [s EXCEPT !.exc = Some("Unable to load route file")]
  ELSE LET r == [k \in 1..Len(resp.json) |-> loadPoint(resp.json[k])]
           s1 == [s EXCEPT !.route = r]
       IN  IF Len(r) = 0 THEN [s1 EXCEPT !.exc = Some("Route empty")]
           ELSE updateInfo([s1 EXCEPT !.fullPolyline = [k \in 1..Len(r) |-> LatLng(r[k])],
                                      !.index = 0,
                                      !.livePolyline = <<>>,
                                      !.bikeMarker = LatLng(r[1])], 0)

\* the start-up function: initMap, loadRoute, and the alert when it throws
startup(s, resp) ==
  LET s1 == loadRoute(s, resp)
  IN  IF s1.exc # Null
      THEN [s1 EXCEPT !.alerted = Some("Error loading route: " \o Val(s1.exc)), !.exc = Null]
      ELSE [s1 EXCEPT !.speedValue = <<"times", s1.speedMultiplier>>]

\* mutant: the segment is opened without the guard against dt <= 0
openSegment_NoGuard(s, i) ==
  LET from == s.route[i + 1]
      to == s.route[i + 2]
      dt == IF from.timestamp # Null /\ to.timestamp # Null
            THEN Val(to.timestamp) - Val(from.timestamp)
            ELSE FallbackMs
  IN  [s EXCEPT !.segmentFrom = Some(from),
                !.segmentTo = Some(to),
                !.segmentStartTime = Some(clock),
                !.segmentDuration = IF dt = 0 THEN FromInt(0)
                                    ELSE RDiv(FromInt(dt), s.speedMultiplier),
                !.openSpeed = Some(s.speedMultiplier)]

\* the body of startSegment once a next waypoint exists: the segment is opened
openSegment(s, i) ==
  LET from == s.route[i + 1]
      to == s.route[i + 2]
      diff == Val(to.timestamp) - Val(from.timestamp)
      dt == IF from.timestamp # Null /\ to.timestamp # Null
            THEN (IF diff <= 0 THEN FallbackMs ELSE diff)
            ELSE FallbackMs
  IN  [s EXCEPT !.segmentFrom = Some(from),
                !.segmentTo = Some(to),
                !.segmentStartTime = Some(clock),
                !.segmentDuration = RDiv(FromInt(dt), s.speedMultiplier),
                !.openSpeed = Some(s.speedMultiplier)]

\* mutant: at the last waypoint startSegment stops playback and leaves the
\* button's label
startSegment_KeepLabel(s, i) ==
  IF i >= Len(s.route) - 1 THEN [s EXCEPT !.playing = FALSE] ELSE openSegment(s, i)

\* mutant: at the last waypoint startSegment returns without stopping playback
startSegment_NoStop(s, i) ==
  IF i >= Len(s.route) - 1 THEN s ELSE openSegment(s, i)

startSegment(s, i) ==
  IF i >= Len(s.route) - 1
  THEN [s EXCEPT !.playing = FALSE, !.playPauseBtn = <<"Play">>]
  ELSE openSegment(s, i)

\* mutant: reset leaves the live trail as it is
resetSimulation_KeepTrail(s) ==
  LET s1 == [cancelAnimationFrame([s EXCEPT !.playing = FALSE]) EXCEPT !.index = 0]
  IN  IF Len(s1.route) = 0 THEN [s1 EXCEPT !.exc = TypeError]
      ELSE LET s2 == updateInfo([s1 EXCEPT !.bikeMarker = LatLng(s1.route[1])], 0)
           IN  IF s2.exc # Null THEN s2 ELSE [s2 EXCEPT !.playPauseBtn = <<"Play">>]

\* mutant: reset forgets to cancel the scheduled frame
resetSimulation_NoCancel(s) ==
  LET s1 == [s EXCEPT !.playing = FALSE, !.index = 0, !.livePolyline = <<>>]
  IN  IF Len(s1.route) = 0 THEN [s1 EXCEPT !.exc = TypeError]
      ELSE LET s2 == updateInfo([s1 EXCEPT !.bikeMarker = LatLng(s1.route[1])], 0)
           IN  IF s2.exc # Null THEN s2 ELSE [s2 EXCEPT !.playPauseBtn = <<"Play">>]

resetSimulation(s) ==
  LET s1 == [cancelAnimationFrame([s EXCEPT !.playing = FALSE])
               EXCEPT !.index = 0, !.livePolyline = <<>>]
  IN  IF Len(s1.route) = 0 THEN [s1 EXCEPT !.exc = TypeError]
      ELSE LET s2 == updateInfo([s1 EXCEPT !.bikeMarker = LatLng(s1.route[1])], 0)
           IN  IF s2.exc # Null THEN s2 ELSE [s2 EXCEPT !.playPauseBtn = <<"Play">>]

\* mutant: the frame's position does not go to the live trail
sample_NoTrail(s, now, t) ==
  LET from == Val(s.segmentFrom)
      to == Val(s.segmentTo)
      lat == lerp(from.lat, to.lat, t)
      lng == lerp(from.lng, to.lng, t)
      distM == haversine(LatLng(from), <<lat, lng>>)
      segMs == Num(to.timestamp) - Num(from.timestamp)
      segDist == haversine(LatLng(from), LatLng(to))
      segSpeed == IF segMs > 0 THEN <<"kmh", segDist, segMs>> ELSE <<"kmh", 0>>
  IN  [s EXCEPT
         !.bikeMarker = <<lat, lng>>,
         !.latEl = toFixed6(lat),
         !.lngEl = toFixed6(lng),
         !.timestampEl =
            IF from.timestamp # Null
            THEN toISOString(RTrunc(RAdd(FromInt(Val(from.timestamp)),
                                         RMul(t, FromInt(segMs)))))
            ELSE Dash,
         !.elapsedEl = <<"time", formatTime(now - Num(s.startSimTime))>>,
         !.speedEl = segSpeed,
         !.progressEl = progressText(s.index, Len(s.route))]

\* lines 137 to 154 of animate: the sample of one frame, at fraction t of the
\* open segment, goes to the marker, the trail and the telemetry
sample(s, now, t) ==
  LET from == Val(s.segmentFrom)
      to == Val(s.segmentTo)
      lat == lerp(from.lat, to.lat, t)
      lng == lerp(from.lng, to.lng, t)
      distM == haversine(LatLng(from), <<lat, lng>>)
      segMs == Num(to.timestamp) - Num(from.timestamp)
      segDist == haversine(LatLng(from), LatLng(to))
      segSpeed == IF segMs > 0 THEN <<"kmh", segDist, segMs>> ELSE <<"kmh", 0>>
  IN  [s EXCEPT
         !.bikeMarker = <<lat, lng>>,
         !.livePolyline = Append(@, <<lat, lng>>),
         !.latEl = toFixed6(lat),
         !.lngEl = toFixed6(lng),
         !.timestampEl =
            IF from.timestamp # Null
            THEN toISOString(RTrunc(RAdd(FromInt(Val(from.timestamp)),
                                         RMul(t, FromInt(segMs)))))
            ELSE Dash,
         !.elapsedEl = <<"time", formatTime(now - Num(s.startSimTime))>>,
         !.speedEl = segSpeed,
         !.progressEl = progressText(s.index, Len(s.route))]

\* mutant: a completed segment only moves the index on and requests a frame
advance_NoBound(s, t) ==
  IF RLeq(FromInt(1), t)
  THEN requestAnimationFrame([s EXCEPT !.index = @ + 1])
  ELSE requestAnimationFrame(s)

\* mutant: the next segment is not opened when the index moves on
advance_StaleSegment(s, t) ==
  IF RLeq(FromInt(1), t)
  THEN LET s2 == [s EXCEPT !.index = @ + 1]
       IN  IF s2.index < Len(s2.route) - 1
           THEN requestAnimationFrame(s2)
           ELSE [s2 EXCEPT !.playing = FALSE, !.playPauseBtn = <<"Play">>]
  ELSE requestAnimationFrame(s)

\* mutant: after opening the next segment animate requests no further frame
advance_NoContinue(s, t) ==
  IF RLeq(FromInt(1), t)
  THEN LET s2 == [s EXCEPT !.index = @ + 1]
       IN  IF s2.index < Len(s2.route) - 1
           THEN startSegment(s2, s2.index)
           ELSE [s2 EXCEPT !.playing = FALSE, !.playPauseBtn = <<"Play">>]
  ELSE requestAnimationFrame(s)

\* lines 156 to 167 of animate: the next waypoint, or the next frame
advance(s, t) ==
  IF RLeq(FromInt(1), t)
  THEN LET s2 == [s EXCEPT !.index = @ + 1]
       IN  IF s2.index < Len(s2.route) - 1
           THEN requestAnimationFrame(startSegment(s2, s2.index))
           ELSE [s2 EXCEPT !.playing = FALSE, !.playPauseBtn = <<"Play">>]
  ELSE requestAnimationFrame(s)

\* the frame callback; now is the frame's timestamp
animate(s, now) ==
  IF ~s.playing THEN s
  ELSE
    LET s0 == IF s.segmentStartTime = Null \/ Val(s.segmentStartTime) = 0
              THEN [s EXCEPT !.segmentStartTime = Some(now)] ELSE s
        elapsed == now - Val(s0.segmentStartTime)
        t == RMin(FromInt(1), RDiv(FromInt(elapsed), s0.segmentDuration))
    IN  IF s0.segmentFrom = Null \/ s0.segmentTo = Null
        THEN [s0 EXCEPT !.exc = TypeError]
        ELSE advance(sample(s0, now, t), t)

\* mutant: a resume keeps the start time the segment had before the pause
play_KeepStart(s) ==
  LET s1 == IF s.index >= Len(s.route) - 1 THEN resetSimulation(s) ELSE s
      r == requestAnimationFrame(
             startSegment([s1 EXCEPT !.playing = TRUE,
                                     !.playPauseBtn = <<"Pause">>,
                                     !.startSimTime = Some(clock)], s1.index))
  IN  IF s1.exc # Null THEN s1
      ELSE IF s.segmentStartTime # Null /\ r.segmentFrom = s.segmentFrom
      THEN [r EXCEPT !.segmentStartTime = s.segmentStartTime]
      ELSE r

\* mutant: play() at the last waypoint does not reset first
play_NoReset(s) ==
  requestAnimationFrame(
    startSegment([s EXCEPT !.playing = TRUE,
                           !.playPauseBtn = <<"Pause">>,
                           !.startSimTime = Some(clock)], s.index))

\* the click handler's branch for !playing
play(s) ==
  LET s1 == IF s.index >= Len(s.route) - 1 THEN resetSimulation(s) ELSE s
  IN  IF s1.exc # Null THEN s1
      ELSE requestAnimationFrame(
             startSegment([s1 EXCEPT !.playing = TRUE,
                                     !.playPauseBtn = <<"Pause">>,
                                     !.startSimTime = Some(clock)], s1.index))

\* mutant: pause() forgets to cancel the scheduled frame
pause_NoCancel(s) ==
  [s EXCEPT !.playing = FALSE, !.playPauseBtn = <<"Play">>]

\* the click handler's branch for playing
pause(s) ==
  cancelAnimationFrame([s EXCEPT !.playing = FALSE, !.playPauseBtn = <<"Play">>])

\* mutant: the click handler without its check that a route is loaded
playPauseClick_NoRouteCheck(s) ==
  IF ~s.playing THEN play(s) ELSE pause(s)

\* the click handler of the play/pause button
playPauseClick(s) ==
  IF Len(s.route) = 0 THEN s
  ELSE IF ~s.playing THEN play(s) ELSE pause(s)

\* mutant: the slider also rescales the duration of the segment in progress
speedInput_Rescale(s, v) ==
  [s EXCEPT !.speedMultiplier = v, !.speedValue = <<"times", v>>,
            !.segmentDuration = RDiv(RMul(@, s.speedMultiplier), v)]

\* the input handler of the speed slider
speedInput(s, v) ==
  [s EXCEPT !.speedMultiplier = v, !.speedValue = <<"times", v>>]

(***************************************************************************)
(* Actions: one per handler, plus the clock.                               *)
(***************************************************************************)
\* the fetch resolves and the start-up function finishes
Startup ==
  /\ loaded = "loading"
  /\ \E resp \in Responses :
       LET s == startup(Cur, resp)
       IN  /\ Commit(s)
           /\ loaded' = IF s.alerted # Null THEN "failed" ELSE "ready"
  /\ lastOp' = "startup"
  /\ steady' = FALSE /\ fromEnd' = FALSE
  /\ UNCHANGED <<clock, lastFrame>>

\* a click on the play/pause button: play() when not playing, else pause()
PlayPause ==
  /\ Commit(playPauseClick(Cur))
  /\ lastOp' = IF playing THEN "pause" ELSE "play"
  /\ steady' = (~playing /\ Len(route) > 1 /\ livePolyline' = <<>> /\ index' = 0)
  /\ fromEnd' = (~playing /\ Len(route) > 0 /\ index >= Len(route) - 1)
  /\ UNCHANGED <<clock, lastFrame, loaded>>

\* a click on the reset button
Reset ==
  /\ Commit(resetSimulation(Cur))
  /\ lastOp' = "reset"
  /\ steady' = FALSE /\ fromEnd' = FALSE
  /\ UNCHANGED <<clock, lastFrame, loaded>>

\* the slider moves to v
SetSpeed ==
  /\ \E v \in SpeedValues : Commit(speedInput(Cur, v))
  /\ lastOp' = "setSpeed"
  /\ steady' = FALSE /\ fromEnd' = FALSE
  /\ UNCHANGED <<clock, lastFrame, loaded>>

\* The host runs a scheduled frame callback.  The frame's timestamp is taken
\* when the frame begins: it is later than the previous frame's and may lie
\* up to one quantum before the clock reading of a handler of the same frame.
Tick ==
  /\ \E h \in pending, now \in {clock - Quantum, clock} :
       /\ now > lastFrame
       /\ Commit(animate([Cur EXCEPT !.pending = @ \ {h}], now))
       /\ lastFrame' = now
  /\ lastOp' = "tick"
  /\ fromEnd' = FALSE
  /\ UNCHANGED <<clock, loaded, steady>>

\* time passes
Advance ==
  /\ clock < MaxSteps * Quantum
  /\ clock' = clock + Quantum
  /\ UNCHANGED <<engine, surface, telemetry, widgets, history,
                 pending, lastFrame, loaded, alerted, thrown>>

Next == Startup \/ PlayPause \/ Reset \/ SetSpeed \/ Tick \/ Advance

Spec == Init /\ [][Next]_vars

(***************************************************************************)
(* Playback left alone: no pause() and no reset().  The host keeps its     *)
(* promise to run a requested frame callback before the next repaint, so   *)
(* the clock does not pass a quantum while a callback is due, and time     *)
(* does pass.                                                              *)
(***************************************************************************)
\* a click on the play/pause button while not playing
LivePlay == ~playing /\ PlayPause

\* the host's part of Tick: a scheduled callback is due, and the frame takes
\* its timestamp
FrameRuns ==
  /\ pending # {}
  /\ \E now \in {clock - Quantum, clock} : now > lastFrame /\ lastFrame' = now

\* the clock's part of LiveAdvance: a quantum passes once this quantum's frame
\* has run
TimePasses ==
  /\ clock < LiveSteps * Quantum
  /\ pending = {} \/ lastFrame = clock
  /\ clock' = clock + Quantum

\* time passes
LiveAdvance ==
  /\ TimePasses
  /\ UNCHANGED <<engine, surface, telemetry, widgets, history,
                 pending, lastFrame, loaded, alerted, thrown>>

LiveNext == Startup \/ LivePlay \/ SetSpeed \/ Tick \/ LiveAdvance

\* Only Tick changes lastFrame and only LiveAdvance changes clock, so the two
\* conditions are weak fairness of Tick and of LiveAdvance.
LiveSpec ==
  Init /\ [][LiveNext]_vars /\ WF_lastFrame(FrameRuns) /\ WF_clock(TimePasses)

(***************************************************************************)
(* Properties.                                                             *)
(***************************************************************************)
RouteLoaded == Len(route) > 0
WaypointZero == LatLng(route[1])

\* C1: in every reachable state at most one frame callback is scheduled, and
\* it is the one animRequest holds; right after play() with a route loaded
\* (in particular play() right after pause()) exactly one is scheduled.
C1_OneTickPending ==
  /\ Cardinality(pending) <= 1
  /\ \A h \in pending : animRequest = Some(h)
  /\ (lastOp = "play" /\ RouteLoaded) => Cardinality(pending) = 1

\* play() has resumed a paused run (the trail of the run is still there) and
\* one callback is scheduled
C1_Witness ==
  /\ lastOp = "play" /\ playing /\ livePolyline # <<>>
  /\ Cardinality(pending) = 1

\* C2: with a route loaded, the state right after reset() has index 0, is not
\* playing, has the marker on waypoint 0, an empty live trail and the elapsed
\* display "00:00:00".
C2_ResetRestores ==
  (lastOp = "reset" /\ RouteLoaded) =>
    /\ index = 0
    /\ ~playing
    /\ bikeMarker = WaypointZero
    /\ livePolyline = <<>>
    /\ elapsedEl = <<"time", "00:00:00">>

\* reset() after a run that has opened a segment and run ticks
C2_Witness ==
  /\ lastOp = "reset" /\ RouteLoaded
  /\ segmentFrom # Null /\ lastFrame > 0 /\ startSimTime # Null

\* C3 (as claimed): the progress displayed is (index + 1) / n in every state
\* with a route of n waypoints.
C3_ProgressMatchesIndex ==
  RouteLoaded => progressEl = progressText(index, Len(route))

\* C4: right after pause() or reset() no frame callback is scheduled; a frame
\* callback that runs while the engine is not playing changes neither the
\* index, the marker, the trail nor the telemetry; and pause() leaves the
\* index, the trail, the marker and the speed multiplier unchanged.
C4_PauseResetCancel ==
  /\ [](lastOp \in {"pause", "reset"} => pending = {})
  /\ [][ /\ (lastFrame' # lastFrame /\ ~playing) =>
              UNCHANGED <<index, bikeMarker, livePolyline, telemetry>>
         /\ (playing /\ lastOp' = "pause") =>
              UNCHANGED <<index, livePolyline, bikeMarker, speedMultiplier>>
       ]_vars

\* paused in the middle of a run
C4_Witness ==
  /\ lastOp = "pause" /\ livePolyline # <<>> /\ pending = {}

\* C5: with a route of one waypoint the engine is never playing, the index is
\* 0, the marker stands on waypoint 0, the trail is empty and the progress is
\* 1 / 1, also after play() and after the frame callback play() scheduled; and
\* neither of them throws.
C5_SingleWaypoint ==
  Len(route) = 1 =>
    /\ ~playing
    /\ index = 0
    /\ bikeMarker = WaypointZero
    /\ livePolyline = <<>>
    /\ progressEl = <<"progress", 1, 1>>
    /\ (lastOp \in {"play", "tick"} => ~thrown)

\* the frame callback scheduled by play() on a one-waypoint route has run
C5_Witness ==
  /\ Len(route) = 1 /\ lastOp = "tick" /\ startSimTime # Null

\* the scenario route of the specification, as loadRoute stores it
ScenarioRoute == [k \in 1..Len(RawScenario) |-> loadPoint(RawScenario[k])]
Half(k) == Rat(k, 2)

\* the run the scenario is about: the scenario route, played from the start
\* at speed 1, no command since play(), and a frame callback has just run
ScenarioRun ==
  /\ route = ScenarioRoute /\ steady /\ lastOp = "tick"
  /\ speedMultiplier = FromInt(1) /\ openSpeed = Some(FromInt(1))

\* the timestamp of the last frame callback, counted from play()
SincePlay == lastFrame - Val(startSimTime)

\* a frame callback of this run has put the marker on p
Visited(p) == \E k \in 1..Len(livePolyline) : livePolyline[k] = p

\* C6 (as claimed): on the scenario route played from the start at speed 1
\* with no command since, the frame callback whose timestamp is 1000 ms after
\* play() leaves the marker on (0.5, 0.5) with progress 1 / 3, and the one
\* whose timestamp is 3000 ms after play() leaves it on (1.5, 1.5) with
\* progress 2 / 3, whenever the callbacks between the two ran.
C6_ScenarioSamples ==
  ScenarioRun =>
    /\ (SincePlay = 1000) =>
          /\ bikeMarker = <<Half(1), Half(1)>>
          /\ progressEl = <<"progress", 1, 3>>
    /\ (SincePlay = 3000 /\ Visited(<<Half(1), Half(1)>>)) =>
          /\ bikeMarker = <<Half(3), Half(3)>>
          /\ progressEl = <<"progress", 2, 3>>

\* C6 (amended): the callback at 1000 ms leaves the marker on (0.5, 0.5) with
\* progress 1 / 3; the callback at 3000 ms leaves it on (1.5, 1.5) with
\* progress 2 / 3 when the second segment was opened exactly 2000 ms after
\* play(), that is when the callback that completed the first segment ran at
\* 2000 ms and the clock still read 2000 ms when it opened the second.
C6_ScenarioSamplesAnchored ==
  ScenarioRun =>
    /\ (SincePlay = 1000) =>
          /\ bikeMarker = <<Half(1), Half(1)>>
          /\ progressEl = <<"progress", 1, 3>>
    /\ (SincePlay = 3000 /\ index = 1
          /\ segmentStartTime = Some(Val(startSimTime) + 2000)) =>
          /\ bikeMarker = <<Half(3), Half(3)>>
          /\ progressEl = <<"progress", 2, 3>>

\* the callbacks at 1000 ms, 2000 ms and 3000 ms have run
C6_Witness ==
  /\ ScenarioRun /\ SincePlay = 3000 /\ index = 1
  /\ segmentStartTime = Some(Val(startSimTime) + 2000)
  /\ Visited(<<Half(1), Half(1)>>)
  /\ bikeMarker = <<Half(3), Half(3)>>

\* C7: the duration of the open segment is (t2 - t1) / m when both endpoints
\* carry timestamps with t1 < t2, and 2000 / m otherwise, m being the speed
\* multiplier when the segment was opened; so it is strictly positive.
C7_SegmentDuration ==
  segmentFrom # Null =>
    LET t1 == Val(segmentFrom).timestamp
        t2 == Val(segmentTo).timestamp
        m == Val(openSpeed)
    IN  /\ segmentDuration =
             IF t1 # Null /\ t2 # Null /\ Val(t1) < Val(t2)
             THEN RDiv(FromInt(Val(t2) - Val(t1)), m)
             ELSE RDiv(FromInt(2000), m)
        /\ RLt(FromInt(0), segmentDuration)

\* a segment with timestamps that do not increase, opened at speed 2
C7_Witness ==
  /\ segmentFrom # Null
  /\ Val(segmentFrom).timestamp # Null /\ Val(segmentTo).timestamp # Null
  /\ Val(Val(segmentTo).timestamp) <= Val(Val(segmentFrom).timestamp)
  /\ openSpeed = Some(FromInt(2))
  /\ segmentDuration = FromInt(1000)

\* C8: a move of the speed slider leaves playing, the index, the scheduled
\* callback, the open segment, its start time and its duration as they are
\* (and with them the marker, the trail and the telemetry).
C8_SetSpeedFrame ==
  [][ lastOp' = "setSpeed" =>
        UNCHANGED <<playing, index, pending, animRequest, segmentStartTime,
                    segmentDuration, segmentFrom, segmentTo, openSpeed,
                    startSimTime, route, surface, telemetry, playPauseBtn>>
    ]_vars

\* the slider has moved while a segment opened at another speed is in progress
C8_Witness ==
  /\ lastOp = "setSpeed" /\ playing /\ pending # {}
  /\ openSpeed # Some(speedMultiplier)
  /\ segmentDuration = RDiv(FromInt(FallbackMs), Val(openSpeed))

\* C9 (as claimed): a play() that resumes after pause() does not set the
\* session-start time again.
C9_SessionAnchoredOnce ==
  [][ (lastOp = "pause" /\ lastOp' = "play") => startSimTime' = startSimTime ]_vars

\* C10: with no route loaded the engine is never playing and nothing is
\* scheduled; a click on play changes no state and throws nothing.
C10_PlayWithoutRoute ==
  /\ [](~RouteLoaded => (~playing /\ pending = {} /\ (lastOp = "play" => ~thrown)))
  /\ [][ (~RouteLoaded /\ lastOp' = "play") =>
           UNCHANGED <<engine, surface, telemetry, widgets, pending, alerted, loaded>>
       ]_vars

\* play() clicked after the load has failed
C10_Witness ==
  /\ loaded = "failed" /\ lastOp = "play" /\ ~RouteLoaded /\ alerted # Null

\* the position at fraction t of the open segment
OnSegment(t) ==
  <<lerp(Val(segmentFrom).lat, Val(segmentTo).lat, t),
    lerp(Val(segmentFrom).lng, Val(segmentTo).lng, t)>>

\* C11: play() right after pause() keeps the index, the trail and the marker
\* and opens the current segment again with the clock reading of the resume
\* as its start time; the first frame callback after the resume puts the
\* marker at the fraction of the segment counted from the resume.
C11_ResumeRestartsSegment ==
  [][ /\ (lastOp = "pause" /\ lastOp' = "play") =>
           /\ playing' /\ index' = index
           /\ livePolyline' = livePolyline /\ bikeMarker' = bikeMarker
           /\ segmentFrom' = Some(route[index + 1])
           /\ segmentTo' = Some(route[index + 2])
           /\ segmentStartTime' = Some(clock')
      /\ (lastOp = "play" /\ playing /\ lastFrame' # lastFrame) =>
           bikeMarker' = OnSegment(RMin(FromInt(1),
                            RDiv(FromInt(lastFrame' - Val(segmentStartTime)),
                                 segmentDuration)))
    ]_vars

\* resumed after a pause in the middle of a segment: the marker stands
\* between the two waypoints and the segment starts at the resume
C11_Witness ==
  /\ lastOp = "play" /\ playing /\ ~fromEnd /\ livePolyline # <<>>
  /\ segmentStartTime = Some(clock) /\ lastFrame < clock
  /\ bikeMarker # LatLng(Val(segmentFrom))
  /\ bikeMarker # LatLng(Val(segmentTo))

\* C12 (as claimed): with no route loaded a click on reset throws nothing and
\* changes no state.
C12_ResetWithoutRoute ==
  /\ []((~RouteLoaded /\ lastOp = "reset") => ~thrown)
  /\ [][ (~RouteLoaded /\ lastOp' = "reset") =>
           UNCHANGED <<engine, surface, telemetry, widgets, pending, alerted, loaded>>
       ]_vars

\* the state the specification calls Finished
Finished == ~playing /\ index = Len(route) - 1 /\ pending = {}

\* the slider's lowest value
SlowestSpeed == CHOOSE v \in SpeedValues : \A w \in SpeedValues : RLeq(v, w)

\* the quanta that segment i lasts at most, as startSegment computes its
\* duration
SegmentQuanta(i) ==
  LET d == RDiv(openSegment([Cur EXCEPT !.speedMultiplier = SlowestSpeed], i).segmentDuration,
                FromInt(Quantum))
  IN  -((-d.n) \div d.d)

\* the quanta that the segments from i on last at most
RECURSIVE RunQuanta(_)
RunQuanta(i) ==
  IF i >= Len(route) - 1 THEN 0 ELSE SegmentQuanta(i) + RunQuanta(i + 1)

\* C13: on a route of two or more waypoints, playback that is neither paused
\* nor reset, with frames run and time passing, leads to Finished (not
\* playing, index n-1, no frame callback scheduled), for every playing state
\* that leaves the clock room for the segments still to run; on the way the
\* index changes only by one, in the frame callback that finds the open
\* segment's duration elapsed (a play() at the last index starts from 0).
C13_PlaybackFinishes ==
  /\ (playing /\ Len(route) >= 2
        /\ clock + RunQuanta(index) * Quantum <= LiveSteps * Quantum) ~> Finished
  /\ [][ \/ index' = index
         \/ /\ index' = index + 1
            /\ playing /\ lastFrame' # lastFrame /\ index < Len(route) - 1
            /\ RLeq(segmentDuration, FromInt(lastFrame' - Val(segmentStartTime)))
         \/ ~playing /\ index >= Len(route) - 1 /\ index' = 0 /\ lastOp' = "play"
       ]_vars

\* a route of three waypoints played to its end by the frame callbacks
C13_Witness ==
  Finished /\ lastOp = "tick" /\ Len(route) >= 3 /\ Len(livePolyline) >= 2

\* C14: right after a play() issued at the last index of a route of two or
\* more waypoints (Finished included) the index is 0, the trail is empty, the
\* marker and the telemetry are those of waypoint 0, the engine is playing on
\* segment 0 and one frame callback is scheduled.
C14_PlayFromEnd ==
  (fromEnd /\ lastOp = "play" /\ Len(route) >= 2) =>
    /\ index = 0 /\ livePolyline = <<>> /\ bikeMarker = WaypointZero
    /\ elapsedEl = <<"time", "00:00:00">> /\ progressEl = progressText(0, Len(route))
    /\ playing /\ playPauseBtn = <<"Pause">>
    /\ segmentFrom = Some(route[1]) /\ segmentTo = Some(route[2])
    /\ Cardinality(pending) = 1 /\ animRequest \in {Some(h) : h \in pending}

\* a run played to its end and started again
C14_Witness ==
  /\ fromEnd /\ lastOp = "play" /\ Len(route) >= 2
  /\ playing /\ index = 0 /\ Cardinality(pending) = 1
  /\ segmentStartTime = Some(clock) /\ clock > Quantum

\* elapsed / segmentDuration of the frame callback about to run with
\* timestamp now
RawFraction(now) == RDiv(FromInt(now - Val(segmentStartTime)), segmentDuration)

\* C15 (as claimed): every frame callback run while playing puts the marker
\* at fraction t of the open segment, with t the elapsed share of the
\* segment's duration clamped to [0, 1] at both ends; so also when the frame's
\* timestamp is earlier than the clock reading that opened the segment.
C15_FractionClamped ==
  [][ (playing /\ lastFrame' # lastFrame) =>
        LET raw == RawFraction(lastFrame')
            t == IF RLt(raw, FromInt(0)) THEN FromInt(0) ELSE RMin(FromInt(1), raw)
        IN  bikeMarker' = OnSegment(t)
    ]_vars

\* C16: a frame callback run while playing appends one point to the live
\* trail, the position it gave the marker (also when it completes a segment);
\* every other step leaves the trail as it is, except reset(), a play() at
\* the last index and the start-up, which empty it; pause() and the speed
\* slider never touch it.
C16_TrailGrows ==
  [][ /\ IF playing /\ lastFrame' # lastFrame
         THEN livePolyline' = Append(livePolyline, bikeMarker')
         ELSE \/ livePolyline' = livePolyline
              \/ /\ livePolyline' = <<>>
                 /\ \/ lastOp' = "reset"
                    \/ lastOp' = "play" /\ fromEnd'
                    \/ lastOp' = "startup"
      /\ lastOp' \in {"pause", "setSpeed"} => livePolyline' = livePolyline
    ]_vars

\* the frame callback that completed the first segment has added its point
\* to the trail of that segment
C16_Witness ==
  /\ lastOp = "tick" /\ index >= 1 /\ playing
  /\ Len(livePolyline) >= 2
  /\ livePolyline[Len(livePolyline)] = bikeMarker
  /\ bikeMarker = LatLng(route[index + 1])

\* C17: with a route of n >= 1 waypoints loaded, 0 <= index <= n-1 in every
\* reachable state.
C17_IndexInRange ==
  RouteLoaded => (0 <= index /\ index <= Len(route) - 1)

\* the index has moved to the last waypoint of a route of two or more
C17_Witness ==
  RouteLoaded /\ index >= 1 /\ index = Len(route) - 1 /\ lastOp = "tick"

\* the timestamp of a waypoint in milliseconds, for a waypoint that has one
Stamp(p) == Val(p.timestamp)

\* C18 (as claimed): the timestamp a frame callback displays is the dash
\* unless both ends of the open segment carry a timestamp, and then it is a
\* time between the two.
C18_SyntheticTimestamp ==
  [][ (playing /\ lastFrame' # lastFrame) =>
        LET from == Val(segmentFrom)
            to == Val(segmentTo)
        IN  IF from.timestamp = Null \/ to.timestamp = Null
            THEN timestampEl' = Dash
            ELSE \E ms \in (IF Stamp(from) <= Stamp(to)
                            THEN Stamp(from)..Stamp(to)
                            ELSE Stamp(to)..Stamp(from)) :
                   timestampEl' = toISOString(ms)
    ]_vars

\* C19: in every state where the engine is playing, index < n-1 and the open
\* segment runs from route[index] to route[index+1] (sequences count from 1).
C19_SegmentMatchesIndex ==
  playing =>
    /\ index < Len(route) - 1
    /\ segmentFrom = Some(route[index + 1])
    /\ segmentTo = Some(route[index + 2])

\* playing on the second segment, which a frame callback opened
C19_Witness ==
  /\ playing /\ index >= 1 /\ lastOp = "tick"
  /\ segmentFrom = Some(route[index + 1]) /\ segmentStartTime = Some(clock)

\* C20: in every state where the engine is playing exactly one frame callback
\* is scheduled, and the button reads 'Pause' exactly in the states where the
\* engine is playing.
C20_PlayingHasTick ==
  /\ playing => Cardinality(pending) = 1
  /\ (playPauseBtn = <<"Pause">>) <=> playing

\* playing, after a frame callback asked for the next frame
C20_Witness ==
  /\ playing /\ lastOp = "tick" /\ Cardinality(pending) = 1
  /\ playPauseBtn = <<"Pause">> /\ livePolyline # <<>>

====
